---- MODULE Spec2Model ----
(***************************************************************************)
(* The durable commit queue of rust_core (commit_manager.rs): Queue, its   *)
(* save_as / load / enqueue / pop_front, the producer entry point          *)
(* enqueue_commit and the background loop commit_manager, together with    *)
(* the two capabilities of NeonAPI the loop uses (check, send_commit),    *)
(* and the C interface in front of them (api.rs, errors.rs): the queue     *)
(* functions, with_handle, and the error codes written to err_out.         *)
(*                                                                         *)
(* Files are sequences of JSON tokens.  serde_json's pretty printer is     *)
(* modelled without white space, colons and commas; the parser accepts     *)
(* the documents the serializer produces (keys in declaration order).      *)
(***************************************************************************)
EXTENDS Integers, Sequences, FiniteSets, TLC

\* ------------------------------------------------------------------ bounds
\* longest queue file present when the program starts
MaxInit == 2
\* number of enqueue_commit calls a producer makes
MaxEnq == 2
\* number of send_commit calls the gate may reject
MaxSendFail == 2
\* number of times the process is killed
MaxKill == 1
\* number of filesystem operations that fail
MaxIoFail == 1

\* ------------------------------------------------------------ Commit values
I16Min == -32768
I16Max == 32767
I32Max == 2147483647
I32Min == -I32Max - 1

Commit(d, l, n, i) == [device_id |-> d, location |-> l, delta |-> n, item_id |-> i]

CommitA == Commit("dev-1", "A1", -3, 42)
CommitB == Commit("dev-1", "A1", 5, 42)

Commits == {CommitA, CommitB}

\* all sequences over S of length at most n
RECURSIVE SeqsUpTo(_, _)
SeqsUpTo(S, n) ==
    IF n = 0 THEN {<<>>}
    ELSE LET shorter == SeqsUpTo(S, n - 1)
         IN  shorter \cup {Append(s, x) : s \in {t \in shorter : Len(t) = n - 1}, x \in S}

\* ------------------------------------------------------------ JSON tokens
Tok(k, s, n) == [k |-> k, s |-> s, n |-> n]
LBrace == Tok("{", "", 0)
RBrace == Tok("}", "", 0)
LBrack == Tok("[", "", 0)
RBrack == Tok("]", "", 0)
Key(name) == Tok("key", name, 0)
Str(v) == Tok("str", v, 0)
Num(v) == Tok("num", "", v)

\* faulty variant: the two numbers are written under each other's key
CommitTokensSwapped(c) ==
    << LBrace,
       Key("device_id"), Str(c.device_id),
       Key("location"), Str(c.location),
       Key("delta"), Num(c.item_id),
       Key("item_id"), Num(c.delta),
       RBrace >>

\* #[derive(Serialize)] for Commit: an object with the four fields in
\* declaration order
CommitTokens(c) ==
    << LBrace,
       Key("device_id"), Str(c.device_id),
       Key("location"), Str(c.location),
       Key("delta"), Num(c.delta),
       Key("item_id"), Num(c.item_id),
       RBrace >>

CommitWidth == 10

RECURSIVE ItemsTokens(_)
ItemsTokens(items) ==
    IF items = <<>> THEN <<>>
    ELSE CommitTokens(Head(items)) \o ItemsTokens(Tail(items))

\* serde_json::to_vec_pretty(self) for Queue { items }
Serialize(items) ==
    <<LBrace, Key("items"), LBrack>> \o ItemsTokens(items) \o <<RBrack, RBrace>>

\* #[derive(Deserialize)] for Commit at position i of toks
CommitAt(toks, i) ==
    /\ i + CommitWidth - 1 <= Len(toks)
    /\ toks[i] = LBrace
    /\ toks[i + 1] = Key("device_id")
    /\ toks[i + 2].k = "str"
    /\ toks[i + 3] = Key("location")
    /\ toks[i + 4].k = "str"
    /\ toks[i + 5] = Key("delta")
    /\ toks[i + 6].k = "num"
    /\ toks[i + 6].n >= I32Min /\ toks[i + 6].n <= I32Max
    /\ toks[i + 7] = Key("item_id")
    /\ toks[i + 8].k = "num"
    /\ toks[i + 8].n >= I16Min /\ toks[i + 8].n <= I16Max
    /\ toks[i + 9] = RBrace

ReadCommit(toks, i) ==
    Commit(toks[i + 2].s, toks[i + 4].s, toks[i + 6].n, toks[i + 8].n)

\* the array of commits from position i on, then "]" "}" and the end of input
RECURSIVE ParseItems(_, _, _)
ParseItems(toks, i, acc) ==
    IF i > Len(toks) THEN [ok |-> FALSE, items |-> <<>>]
    ELSE IF toks[i] = RBrack
         THEN IF i + 1 = Len(toks) /\ toks[i + 1] = RBrace
              THEN [ok |-> TRUE, items |-> acc]
              ELSE [ok |-> FALSE, items |-> <<>>]
         ELSE IF CommitAt(toks, i)
              THEN ParseItems(toks, i + CommitWidth, Append(acc, ReadCommit(toks, i)))
              ELSE [ok |-> FALSE, items |-> <<>>]

\* faulty variant: a document that breaks off keeps the commits read so far
ParseSalvage(toks) ==
    IF /\ Len(toks) >= 3
       /\ toks[1] = LBrace
       /\ toks[2] = Key("items")
       /\ toks[3] = LBrack
    THEN LET At(j) == 4 + CommitWidth * (j - 1)
             whole == {k \in 0..Len(toks) : \A j \in 1..k : CommitAt(toks, At(j))}
             n == CHOOSE k \in whole : \A m \in whole : m <= k
         IN  [ok |-> TRUE, items |-> [j \in 1..n |-> ReadCommit(toks, At(j))]]
    ELSE [ok |-> FALSE, items |-> <<>>]

\* serde_json::from_slice::<Queue>(&data)
Parse(toks) ==
    IF /\ Len(toks) >= 3
       /\ toks[1] = LBrace
       /\ toks[2] = Key("items")
       /\ toks[3] = LBrack
    THEN ParseItems(toks, 4, <<>>)
    ELSE [ok |-> FALSE, items |-> <<>>]

\* ------------------------------------------------------------------ files
Absent == [exists |-> FALSE, data |-> <<>>]
FileOf(toks) == [exists |-> TRUE, data |-> toks]

\* faulty variant: a document that does not parse is an error: `?` in place of
\* unwrap_or_default
LoadStrict(f, readFails) ==
    IF ~f.exists THEN [ok |-> TRUE, items |-> <<>>]
    ELSE IF readFails THEN [ok |-> FALSE, items |-> <<>>]
    ELSE Parse(f.data)

\* Queue::load: no file -> default; unreadable -> Err; unparsable -> default
Load(f, readFails) ==
    IF ~f.exists THEN [ok |-> TRUE, items |-> <<>>]
    ELSE IF readFails THEN [ok |-> FALSE, items |-> <<>>]
    ELSE LET p == Parse(f.data)
         IN  [ok |-> TRUE, items |-> IF p.ok THEN p.items ELSE <<>>]

\* what a successful Queue::load of f holds
Disk(f) == Load(f, FALSE).items

ProperPrefixes(toks) == {SubSeq(toks, 1, n) : n \in 0..(Len(toks) - 1)}

\* what an interrupted write of toks can leave behind: nothing yet, a cut
\* inside the header, inside the last commit, before the closing "]" "}", or
\* before the last "}"
Torn(toks) ==
    {SubSeq(toks, 1, n) :
        n \in {0, 2, Len(toks) - 7, Len(toks) - 2, Len(toks) - 1} \cap 0..(Len(toks) - 1)}

\* ------------------------------------------------- the C interface (api.rs)
\* a `*const c_char` argument: null, a C string that is not UTF-8, or a C
\* string holding s
NullPtr == [kind |-> "null", s |-> ""]
BadPtr == [kind |-> "bad", s |-> ""]
StrPtr(s) == [kind |-> "str", s |-> s]

\* AppError (errors.rs lines 11-35)
Validation(msg) == [tag |-> "Validation", msg |-> msg, status |-> 0]
Network(msg) == [tag |-> "Network", msg |-> msg, status |-> 0]
Server(status, message) == [tag |-> "Server", msg |-> message, status |-> status]
Unauthorized == [tag |-> "Unauthorized", msg |-> "", status |-> 0]
Serialization(msg) == [tag |-> "Serialization", msg |-> msg, status |-> 0]
Internal(msg) == [tag |-> "Internal", msg |-> msg, status |-> 0]

\* impl From<anyhow::Error> for AppError
FromAnyhow(msg) == Internal(msg)

\* Result<T, AppError>
Ok(v) == [ok |-> TRUE, val |-> v]
Err(e) == [ok |-> FALSE, err |-> e]

\* faulty variant: a null pointer is taken for the empty string
CstrToStringLenient(ptr, field) ==
    IF ptr.kind = "bad" THEN Err(Validation(field \o " was not valid UTF-8"))
    ELSE Ok(ptr.s)

\* cstr_to_string(ptr, field)
CstrToString(ptr, field) ==
    IF ptr.kind = "null" THEN Err(Validation(field \o " pointer was null"))
    ELSE IF ptr.kind = "bad" THEN Err(Validation(field \o " was not valid UTF-8"))
    ELSE Ok(ptr.s)

\* FfiCommit: two C strings and two numbers
FfiCommit(d, l, n, i) == [device_id |-> d, location |-> l, delta |-> n, item_id |-> i]

\* impl TryFrom<FfiCommit> for Commit: device_id first, then location
TryFromFfiCommit(value) ==
    LET d == CstrToString(value.device_id, "device_id")
        l == CstrToString(value.location, "location")
    IN  IF ~d.ok THEN d
        ELSE IF ~l.ok THEN l
        ELSE Ok(Commit(d.val, l.val, value.delta, value.item_id))

DEFAULT_QUEUE_PATH == "commit_queue.json"

\* path_from_ptr: a null path stands for the default path
PathFromPtr(ptr) ==
    IF ptr.kind = "null" THEN Ok(DEFAULT_QUEUE_PATH) ELSE CstrToString(ptr, "path")

\* messages with a zero byte inside, which CString::new refuses
NulStrings == {"nul<0>inside"}

\* FfiError::success()
FfiSuccess == [code |-> 0, message |-> NullPtr]

\* FfiError::from_message(code, message)
FromMessage(code, message) ==
    [code |-> code,
     message |-> StrPtr(IF message \in NulStrings THEN "invalid error" ELSE message)]

\* faulty variant: Serialization falls into the arm of Internal
FfiErrorFromMerged(e) ==
    CASE e.tag = "Validation" -> FromMessage(1, e.msg)
      [] e.tag = "Network" -> FromMessage(2, e.msg)
      [] e.tag = "Server" -> FromMessage(3, ToString(e.status) \o " " \o e.msg)
      [] e.tag = "Unauthorized" -> FromMessage(4, "unauthorized")
      [] OTHER -> FromMessage(999, e.msg)

\* impl From<AppError> for FfiError
FfiErrorFrom(e) ==
    CASE e.tag = "Validation" -> FromMessage(1, e.msg)
      [] e.tag = "Network" -> FromMessage(2, e.msg)
      [] e.tag = "Server" -> FromMessage(3, ToString(e.status) \o " " \o e.msg)
      [] e.tag = "Unauthorized" -> FromMessage(4, "unauthorized")
      [] e.tag = "Serialization" -> FromMessage(5, e.msg)
      [] e.tag = "Internal" -> FromMessage(999, e.msg)

\* a call of a function of the C interface: its arguments (err_out given or
\* null), whether it is under way, and once it has returned what it wrote to
\* err_out (out), the bool it returned (flag) or the i32 it returned (ret)
FfiCall(fn, path, commit, slot) ==
    [fn |-> fn, live |-> TRUE, path |-> path, commit |-> commit, slot |-> slot,
     out |-> <<>>, flag |-> <<>>, ret |-> <<>>]

NoFfi == [FfiCall("none", NullPtr, FfiCommit(NullPtr, NullPtr, 0, 0), FALSE)
             EXCEPT !.live = FALSE]

\* write_success / write_error: err_out is written only when it is not null
WriteOut(call, result) ==
    IF call.slot
    THEN <<IF result.ok THEN FfiSuccess ELSE FfiErrorFrom(result.err)>>
    ELSE <<>>

\* the two match arms of a bool function: Ok -> write_success and the value,
\* Err -> write_error and false
FfiDone(call, result) ==
    [call EXCEPT !.live = FALSE,
                 !.out = WriteOut(call, result),
                 !.flag = <<IF result.ok THEN result.val ELSE FALSE>>]

\* ------------------------------------------------------------------ state
\* Three callers of Queue run in the process: "mgr" is commit_manager on its
\* worker thread, "prod" is a producer inside enqueue_commit, "user" holds a
\* Queue value and calls its methods directly.
Threads == {"mgr", "prod", "user"}

NoCommit == Commit("", "", 0, 0)

VARIABLES
    file,       \* the queue file at `path`
    tmp,        \* its sibling path.with_extension("tmp")
    pc,         \* where each thread is
    mem,        \* each thread's Queue value (self.items)
    arg,        \* "mgr": the peeked `commit`; "prod"/"user": the commit passed in
    op,         \* the thread's last call: "none", "enqueue", "pop", "load", "queue_len"
    base,       \* self.items when that method was entered
    res,        \* what the thread's last call returned
    calls,      \* history: the send_commit calls, each with its outcome
    enqOk,      \* history: the commits whose enqueue_commit returned Ok
    q0,         \* history: what the queue file held at the start
    ncalls,     \* enqueue_commit calls made
    sendFails,  \* send_commit calls rejected
    kills,      \* times the process was killed
    ioFails,    \* filesystem operations that failed
    ffi         \* the call into the C interface under way, or the last one

vars == << file, tmp, pc, mem, arg, op, base, res, calls, enqOk, q0,
           ncalls, sendFails, kills, ioFails, ffi >>

fsVars == << file, tmp >>
histVars == << calls, enqOk, q0 >>
countVars == << ncalls, sendFails, kills, ioFails >>

\* queue files the program itself can have left behind
ValidFiles == {Absent} \cup {FileOf(Serialize(q)) : q \in SeqsUpTo(Commits, MaxInit)}

\* files that do not parse: cut-off documents, an empty file, a document of
\* another shape, an item_id that does not fit i16
CorruptFiles ==
    {FileOf(p) : p \in ProperPrefixes(Serialize(<<CommitA>>))}
      \cup {FileOf(<<LBrack, RBrack>>)}
      \cup {FileOf(<<LBrace, Key("items"), LBrack>>
                   \o CommitTokens(Commit("dev-1", "A1", 5, I16Max + 1))
                   \o <<RBrack, RBrace>>)}

InitWith(files, tmps) ==
    /\ file \in files
    /\ tmp \in tmps
    /\ pc = [t \in Threads |->
               IF t = "mgr" THEN "off" ELSE IF t = "prod" THEN "idle" ELSE "new"]
    /\ mem = [t \in Threads |-> <<>>]
    /\ arg = [t \in Threads |-> NoCommit]
    /\ op = [t \in Threads |-> "none"]
    /\ base = [t \in Threads |-> <<>>]
    /\ res = [t \in Threads |-> "none"]
    /\ calls = <<>>
    /\ enqOk = <<>>
    /\ q0 = Disk(file)
    /\ ncalls = 0
    /\ sendFails = 0
    /\ kills = 0
    /\ ioFails = 0
    /\ ffi = NoFfi

Init == InitWith(ValidFiles, {Absent})

\* ------------------------------------------------------ Queue's operations
\* faulty variant: push_front in place of push_back
PushBackAtFront(q, c) == <<c>> \o q

\* self.items.push_back(commit)
PushBack(q, c) == Append(q, c)

\* faulty variant: pop_front without `if item.is_some()`: the save is always made
PopFrontAlwaysSaves(q) ==
    IF q = <<>> THEN [some |-> TRUE, item |-> NoCommit, rest |-> <<>>]
    ELSE [some |-> TRUE, item |-> Head(q), rest |-> Tail(q)]

\* faulty variant: pop_back in place of pop_front
PopFrontFromBack(q) ==
    IF q = <<>> THEN [some |-> FALSE, item |-> NoCommit, rest |-> <<>>]
    ELSE [some |-> TRUE, item |-> q[Len(q)], rest |-> SubSeq(q, 1, Len(q) - 1)]

\* self.items.pop_front(): the item, if any, and what is left
PopFront(q) ==
    IF q = <<>> THEN [some |-> FALSE, item |-> NoCommit, rest |-> <<>>]
    ELSE [some |-> TRUE, item |-> Head(q), rest |-> Tail(q)]

\* self.items.front()
Peek(q) ==
    IF q = <<>> THEN [some |-> FALSE, item |-> NoCommit]
    ELSE [some |-> TRUE, item |-> Head(q)]

\* faulty variant: the bytes are written over the target itself
FsWriteInPlace(content) == [file |-> FileOf(content), tmp |-> tmp]

\* fs::write(&tmp, &data): the bytes go to the sibling, the target is not touched
FsWrite(content) == [file |-> file, tmp |-> FileOf(content)]

\* fs::rename(&tmp, path): the sibling replaces the target and is gone
FsRename == [file |-> tmp, tmp |-> Absent]

\* faulty variant: the result of save_as is dropped: `let _ = self.save_as(path);`
SaveResultSwallowed(saved) == "ok"

\* what enqueue / pop_front return for their save_as: the tail call in
\* enqueue and `?` in pop_front hand an Err on to the caller
SaveResult(saved) == IF saved THEN "ok" ELSE "err"

\* the text of an io::Error
IoErrorText == "io error"

\* sparkwms_queue_enqueue after enqueue_commit has returned r (api.rs lines
\* 239-250); a caller of enqueue_commit from Rust has no err_out
EnqueueReturns(t, r) ==
    IF t = "prod" /\ ffi.live
    THEN FfiDone(ffi, IF r = "ok" THEN Ok(TRUE) ELSE Err(FromAnyhow(IoErrorText)))
    ELSE ffi

\* where a thread goes when its Queue method has returned r
\*   mgr : `queue.pop_front(&path_buf)?` - Err leaves commit_manager, Ok loops
\*   prod: enqueue_commit returns what queue.enqueue returned
\*   user: has its Queue value back
AfterCall(t, r) ==
    CASE t = "mgr" -> IF r = "err" THEN "exited" ELSE "loop"
      [] t = "prod" -> "idle"
      [] t = "user" -> "ready"

Returned(t, r) ==
    /\ pc' = [pc EXCEPT ![t] = AfterCall(t, r)]
    /\ res' = [res EXCEPT ![t] = r]
    /\ enqOk' = IF t = "prod" /\ r = "ok" THEN Append(enqOk, arg[t]) ELSE enqOk
    /\ mem' = IF t = "prod" /\ r = "ok" THEN [mem EXCEPT ![t] = <<>>] ELSE mem
    /\ ffi' = EnqueueReturns(t, r)

\* ------------------------------------------------------------ Queue::save_as
\* line 29, fs::write(&tmp, &data)?: on failure some of the bytes, or none,
\* may have reached the sibling
Write(t, ok) ==
    /\ pc[t] = "write"
    /\ LET data == Serialize(mem[t])
       IN  IF ok
           THEN /\ file' = FsWrite(data).file
                /\ tmp' = FsWrite(data).tmp
                /\ pc' = [pc EXCEPT ![t] = "rename"]
                /\ UNCHANGED << mem, res, enqOk, ioFails, ffi >>
           ELSE /\ ioFails < MaxIoFail
                /\ ioFails' = ioFails + 1
                /\ \/ UNCHANGED fsVars
                   \/ \E p \in Torn(data) :
                        /\ file' = FsWrite(p).file
                        /\ tmp' = FsWrite(p).tmp
                /\ Returned(t, SaveResult(FALSE))
    /\ UNCHANGED << arg, op, base, calls, q0, ncalls, sendFails, kills >>

\* line 30, fs::rename(&tmp, path)?: fails when the sibling is not there
\* (another save in the process has renamed it away) or when the filesystem
\* refuses (ok = FALSE)
Rename(t, ok) ==
    /\ pc[t] = "rename"
    /\ ok \/ (tmp.exists /\ ioFails < MaxIoFail)
    /\ IF ok /\ tmp.exists
       THEN /\ file' = FsRename.file
            /\ tmp' = FsRename.tmp
            /\ UNCHANGED ioFails
            /\ Returned(t, SaveResult(TRUE))
       ELSE /\ ioFails' = IF ok THEN ioFails ELSE ioFails + 1
            /\ UNCHANGED fsVars
            /\ Returned(t, SaveResult(FALSE))
    /\ UNCHANGED << arg, op, base, calls, q0, ncalls, sendFails, kills >>

\* ---------------------------------------------------------- commit_manager
\* sparkwms_start_commit_manager spawns the worker thread
MgrStart ==
    /\ pc["mgr"] \in {"off", "exited"}
    /\ pc' = [pc EXCEPT !["mgr"] = "start"]
    /\ mem' = [mem EXCEPT !["mgr"] = <<>>]
    /\ res' = [res EXCEPT !["mgr"] = "none"]
    /\ arg' = [arg EXCEPT !["mgr"] = NoCommit]
    /\ op' = [op EXCEPT !["mgr"] = "none"]
    /\ base' = [base EXCEPT !["mgr"] = <<>>]
    /\ UNCHANGED << fsVars, histVars, countVars, ffi >>

\* line 86: let mut queue = Queue::load(&path_buf)?
MgrLoad(ok) ==
    /\ pc["mgr"] = "start"
    /\ ok \/ (file.exists /\ ioFails < MaxIoFail)
    /\ LET r == Load(file, ~ok)
       IN  IF r.ok
           THEN /\ mem' = [mem EXCEPT !["mgr"] = r.items]
                /\ pc' = [pc EXCEPT !["mgr"] = "loop"]
                /\ UNCHANGED res
           ELSE /\ pc' = [pc EXCEPT !["mgr"] = "exited"]
                /\ res' = [res EXCEPT !["mgr"] = "err"]
                /\ UNCHANGED mem
    /\ ioFails' = IF ok THEN ioFails ELSE ioFails + 1
    /\ UNCHANGED << fsVars, arg, op, base, histVars, ncalls, sendFails, kills, ffi >>

\* lines 88-89: loop { if queue.items.len() > 0 { ... } }
MgrIter ==
    /\ pc["mgr"] = "loop"
    /\ pc' = [pc EXCEPT !["mgr"] = IF Len(mem["mgr"]) > 0 THEN "peek" ELSE "loop_end"]
    /\ UNCHANGED << fsVars, mem, arg, op, base, res, histVars, countVars, ffi >>

\* lines 112-113: the end of the loop body, reached when the `if` was not taken
MgrLoopEnd ==
    /\ pc["mgr"] = "loop_end"
    /\ pc' = [pc EXCEPT !["mgr"] = "loop"]
    /\ UNCHANGED << fsVars, mem, arg, op, base, res, histVars, countVars, ffi >>

\* lines 90-98: the idle sleep behind is_empty(), then the peek
MgrPeek ==
    /\ pc["mgr"] = "peek"
    /\ IF mem["mgr"] = <<>>
       THEN /\ pc' = [pc EXCEPT !["mgr"] = "sleep1"]
            /\ UNCHANGED arg
       ELSE LET h == Peek(mem["mgr"])
            IN  IF h.some
                THEN /\ arg' = [arg EXCEPT !["mgr"] = h.item]
                     /\ pc' = [pc EXCEPT !["mgr"] = "check"]
                ELSE /\ pc' = [pc EXCEPT !["mgr"] = "loop"]
                     /\ UNCHANGED arg
    /\ UNCHANGED << fsVars, mem, op, base, res, histVars, countVars, ffi >>

\* faulty variant: the result of the probe is not looked at
AfterCheckAlwaysSend(up) == "send"

\* lines 100-103: a false probe goes to the backoff sleep and `continue`
AfterCheck(up) == IF up THEN "send" ELSE "sleep5"

\* lines 100-103: if !api.check().await { sleep(5 s); continue }; res keeps
\* what check() returned
MgrCheck(up) ==
    /\ pc["mgr"] = "check"
    /\ res' = [res EXCEPT !["mgr"] = IF up THEN "up" ELSE "down"]
    /\ pc' = [pc EXCEPT !["mgr"] = AfterCheck(up)]
    /\ UNCHANGED << fsVars, mem, arg, op, base, histVars, countVars, ffi >>

\* faulty variant: the head is popped whether or not send_commit accepted it
AfterSendAlwaysPop(ok) == "pop"

\* faulty variant: a rejected commit ends the loop: `?` on send_commit
AfterSendGivesUp(ok) == IF ok THEN "pop" ELSE "exited"

\* lines 105-111: on Err the backoff sleep and `continue`, on Ok the pop
AfterSend(ok) == IF ok THEN "pop" ELSE "sleep5"

\* lines 105-109: api.send_commit(&commit), on Err log, sleep(5 s), continue
MgrSend(ok) ==
    /\ pc["mgr"] = "send"
    /\ ok \/ sendFails < MaxSendFail
    /\ calls' = Append(calls, [c |-> arg["mgr"], ok |-> ok])
    /\ sendFails' = IF ok THEN sendFails ELSE sendFails + 1
    /\ pc' = [pc EXCEPT !["mgr"] = AfterSend(ok)]
    /\ UNCHANGED << fsVars, mem, arg, op, base, res, enqOk, q0, ncalls, kills, ioFails, ffi >>

\* the seconds of the sleeps: line 91 (idle), lines 101 and 107 (backoff)
SleepSecs == [sleep1 |-> 1, sleep5 |-> 5]

\* the sleeps of lines 91, 101, 107 end and `continue` goes to the loop head
MgrWake ==
    /\ pc["mgr"] \in {"sleep1", "sleep5"}
    /\ pc' = [pc EXCEPT !["mgr"] = "loop"]
    /\ UNCHANGED << fsVars, mem, arg, op, base, res, histVars, countVars, ffi >>

\* line 111 with lines 61-62: queue.pop_front(&path_buf) up to its save_as
MgrPop ==
    /\ pc["mgr"] = "pop"
    /\ LET p == PopFront(mem["mgr"])
       IN  /\ mem' = [mem EXCEPT !["mgr"] = p.rest]
           /\ pc' = [pc EXCEPT !["mgr"] = IF p.some THEN "write" ELSE "loop"]
    /\ op' = [op EXCEPT !["mgr"] = "pop"]
    /\ base' = [base EXCEPT !["mgr"] = mem["mgr"]]
    /\ UNCHANGED << fsVars, arg, res, histVars, countVars, ffi >>

\* ---------------------------------------------------------- enqueue_commit
\* a producer calls enqueue_commit(path, c)
ProdCall(c) ==
    /\ pc["prod"] = "idle"
    /\ ncalls < MaxEnq
    /\ ncalls' = ncalls + 1
    /\ pc' = [pc EXCEPT !["prod"] = "load"]
    /\ arg' = [arg EXCEPT !["prod"] = c]
    /\ mem' = [mem EXCEPT !["prod"] = <<>>]
    /\ res' = [res EXCEPT !["prod"] = "pending"]
    /\ op' = [op EXCEPT !["prod"] = "none"]
    /\ base' = [base EXCEPT !["prod"] = <<>>]
    /\ UNCHANGED << fsVars, histVars, sendFails, kills, ioFails, ffi >>

\* line 72: let mut queue = Queue::load(path)?
ProdLoad(ok) ==
    /\ pc["prod"] = "load"
    /\ ok \/ (file.exists /\ ioFails < MaxIoFail)
    /\ LET r == Load(file, ~ok)
       IN  IF r.ok
           THEN /\ mem' = [mem EXCEPT !["prod"] = r.items]
                /\ pc' = [pc EXCEPT !["prod"] = "push"]
                /\ UNCHANGED << res, ffi >>
           ELSE /\ pc' = [pc EXCEPT !["prod"] = "idle"]
                /\ res' = [res EXCEPT !["prod"] = "err"]
                /\ ffi' = EnqueueReturns("prod", "err")
                /\ UNCHANGED mem
    /\ ioFails' = IF ok THEN ioFails ELSE ioFails + 1
    /\ UNCHANGED << fsVars, arg, op, base, histVars, ncalls, sendFails, kills >>

\* line 73 with line 50: queue.enqueue(commit, path) up to its save_as
ProdPush ==
    /\ pc["prod"] = "push"
    /\ mem' = [mem EXCEPT !["prod"] = PushBack(mem["prod"], arg["prod"])]
    /\ op' = [op EXCEPT !["prod"] = "enqueue"]
    /\ base' = [base EXCEPT !["prod"] = mem["prod"]]
    /\ pc' = [pc EXCEPT !["prod"] = "write"]
    /\ UNCHANGED << fsVars, arg, res, histVars, countVars, ffi >>

\* ---------------------------------------------------------------- queue_len
\* `len as i32` (api.rs line 262): the low 32 bits of a length below 2^32
AsI32(n) == IF n <= I32Max THEN n ELSE n - I32Max - I32Max - 2

\* faulty variant: the index of the last commit in place of the length
QueueLenLastIndex(items) == Len(items) - 1

\* commit_manager.rs line 78: Queue::load(path)?.items.len()
QueueLenOf(items) == Len(items)

\* the caller of enqueue_commit calls sparkwms_queue_len(path, err_out);
\* line 257, path_from_ptr(path)?, sends it back at once with -1
LenCall(path, slot) ==
    /\ pc["prod"] = "idle"
    /\ LET call == FfiCall("queue_len", path, NoFfi.commit, slot)
           p == PathFromPtr(path)
       IN  IF p.ok
           THEN /\ pc' = [pc EXCEPT !["prod"] = "queue_len"]
                /\ res' = [res EXCEPT !["prod"] = "pending"]
                /\ ffi' = call
           ELSE /\ res' = [res EXCEPT !["prod"] = "err"]
                /\ ffi' = [call EXCEPT !.live = FALSE,
                                       !.out = WriteOut(call, p),
                                       !.ret = <<-1>>]
                /\ UNCHANGED pc
    /\ op' = [op EXCEPT !["prod"] = "queue_len"]
    /\ UNCHANGED << fsVars, mem, arg, base, histVars, countVars >>

\* sparkwms_queue_len returns: the length of the loaded queue, -1 when the
\* load failed
QueueLen(ok) ==
    /\ pc["prod"] = "queue_len"
    /\ ok \/ (file.exists /\ ioFails < MaxIoFail)
    /\ LET r == Load(file, ~ok)
           result == IF r.ok THEN Ok(QueueLenOf(r.items)) ELSE Err(FromAnyhow(IoErrorText))
       IN  /\ ffi' = [ffi EXCEPT !.live = FALSE,
                                 !.out = WriteOut(ffi, result),
                                 !.ret = <<IF result.ok THEN AsI32(result.val) ELSE -1>>]
           /\ res' = [res EXCEPT !["prod"] = IF r.ok THEN "ok" ELSE "err"]
    /\ ioFails' = IF ok THEN ioFails ELSE ioFails + 1
    /\ pc' = [pc EXCEPT !["prod"] = "idle"]
    /\ UNCHANGED << fsVars, mem, arg, op, base, histVars, ncalls, sendFails, kills >>

\* --------------------------------------------------- sparkwms_queue_enqueue
\* api.rs lines 231-251: the path and the commit are converted first; a
\* failure there returns false at once, otherwise enqueue_commit runs
FfiEnqueue(path, commit, slot) ==
    /\ pc["prod"] = "idle"
    /\ ncalls < MaxEnq
    /\ ncalls' = ncalls + 1
    /\ LET call == FfiCall("queue_enqueue", path, commit, slot)
           p == PathFromPtr(path)
           c == IF p.ok THEN TryFromFfiCommit(commit) ELSE p
       IN  IF c.ok
           THEN /\ pc' = [pc EXCEPT !["prod"] = "load"]
                /\ arg' = [arg EXCEPT !["prod"] = c.val]
                /\ res' = [res EXCEPT !["prod"] = "pending"]
                /\ ffi' = call
           ELSE /\ res' = [res EXCEPT !["prod"] = "err"]
                /\ ffi' = FfiDone(call, c)
                /\ UNCHANGED << pc, arg >>
    /\ mem' = [mem EXCEPT !["prod"] = <<>>]
    /\ op' = [op EXCEPT !["prod"] = "none"]
    /\ base' = [base EXCEPT !["prod"] = <<>>]
    /\ UNCHANGED << fsVars, histVars, sendFails, kills, ioFails >>

\* ---------------------------------------------------------------- with_handle
\* api.rs lines 138-162, the frame of the sparkwms_api_* functions: a null
\* handle is a Validation error, otherwise what the closure returned decides
WithHandle(handleNull, result, slot) ==
    /\ pc["prod"] = "idle"
    /\ LET call == FfiCall("with_handle", NullPtr, NoFfi.commit, slot)
           r == IF handleNull THEN Err(Validation("handle pointer was null")) ELSE result
       IN  /\ ffi' = FfiDone(call, r)
           /\ res' = [res EXCEPT !["prod"] = IF r.ok THEN "ok" ELSE "err"]
    /\ op' = [op EXCEPT !["prod"] = "with_handle"]
    /\ UNCHANGED << fsVars, pc, mem, arg, base, histVars, countVars >>

\* ------------------------------------------------- Queue's methods, directly
\* Queue::load(path) into the user's Queue value
UserLoad(ok) ==
    /\ pc["user"] \in {"new", "ready"}
    /\ ok \/ (file.exists /\ ioFails < MaxIoFail)
    /\ LET r == Load(file, ~ok)
       IN  IF r.ok
           THEN /\ mem' = [mem EXCEPT !["user"] = r.items]
                /\ pc' = [pc EXCEPT !["user"] = "ready"]
                /\ res' = [res EXCEPT !["user"] = "ok"]
           ELSE /\ res' = [res EXCEPT !["user"] = "err"]
                /\ UNCHANGED << mem, pc >>
    /\ ioFails' = IF ok THEN ioFails ELSE ioFails + 1
    /\ op' = [op EXCEPT !["user"] = "load"]
    /\ base' = [base EXCEPT !["user"] = <<>>]
    /\ UNCHANGED << fsVars, arg, histVars, ncalls, sendFails, kills, ffi >>

\* queue.enqueue(c, path), lines 49-50, up to its save_as
UserEnqueue(c) ==
    /\ pc["user"] = "ready"
    /\ ncalls < MaxEnq
    /\ ncalls' = ncalls + 1
    /\ mem' = [mem EXCEPT !["user"] = PushBack(mem["user"], c)]
    /\ arg' = [arg EXCEPT !["user"] = c]
    /\ op' = [op EXCEPT !["user"] = "enqueue"]
    /\ base' = [base EXCEPT !["user"] = mem["user"]]
    /\ res' = [res EXCEPT !["user"] = "pending"]
    /\ pc' = [pc EXCEPT !["user"] = "write"]
    /\ UNCHANGED << fsVars, histVars, sendFails, kills, ioFails, ffi >>

\* queue.pop_front(path), lines 60-65: Ok(None) at once when nothing was popped
UserPop ==
    /\ pc["user"] = "ready"
    /\ LET p == PopFront(mem["user"])
       IN  /\ mem' = [mem EXCEPT !["user"] = p.rest]
           /\ arg' = [arg EXCEPT !["user"] = p.item]
           /\ pc' = [pc EXCEPT !["user"] = IF p.some THEN "write" ELSE "ready"]
           /\ res' = [res EXCEPT !["user"] = IF p.some THEN "pending" ELSE "ok_none"]
    /\ op' = [op EXCEPT !["user"] = "pop"]
    /\ base' = [base EXCEPT !["user"] = mem["user"]]
    /\ UNCHANGED << fsVars, histVars, countVars, ffi >>

\* ------------------------------------------------------- the process dies
Running == pc["mgr"] # "off" \/ pc["prod"] # "idle" \/ pc["user"] # "new"

Dead ==
    /\ pc' = [t \in Threads |->
                IF t = "mgr" THEN "off" ELSE IF t = "prod" THEN "idle" ELSE "new"]
    /\ mem' = [t \in Threads |-> <<>>]
    /\ arg' = [t \in Threads |-> NoCommit]
    /\ op' = [t \in Threads |-> "none"]
    /\ base' = [t \in Threads |-> <<>>]
    /\ res' = [t \in Threads |-> "none"]
    /\ kills' = kills + 1
    /\ ffi' = NoFfi
    /\ UNCHANGED << histVars, ncalls, sendFails, ioFails >>

\* killed anywhere: everything in memory is gone, the files stay as they are
Kill ==
    /\ Running
    /\ kills < MaxKill
    /\ UNCHANGED fsVars
    /\ Dead

\* killed inside fs::write (line 29): only the first bytes have reached the file
KillInWrite ==
    /\ kills < MaxKill
    /\ \E t \in Threads :
         /\ pc[t] = "write"
         /\ \E p \in Torn(Serialize(mem[t])) :
              /\ file' = FsWrite(p).file
              /\ tmp' = FsWrite(p).tmp
    /\ Dead

\* the process exits and is started again between two calls of a producer
Restart ==
    /\ pc["mgr"] = "off"
    /\ pc["prod"] = "idle"
    /\ res["prod"] # "none"
    /\ kills < MaxKill
    /\ UNCHANGED fsVars
    /\ Dead

\* a producer that calls only while no manager runs in the process
ProdCallOffline(c) ==
    /\ pc["mgr"] \in {"off", "exited"}
    /\ ProdCall(c)

\* the manager started while no call of a producer is under way
MgrStartQuiet ==
    /\ pc["prod"] = "idle"
    /\ MgrStart

\* ------------------------------------------------------------ specifications
\* Spec: the manager and a producer side by side in one process, on one
\* file; the gate may be down or reject a commit.
MgrNext ==
    \/ MgrStart
    \/ MgrLoad(TRUE)
    \/ MgrIter
    \/ MgrLoopEnd
    \/ MgrPeek
    \/ \E up \in BOOLEAN : MgrCheck(up)
    \/ \E ok \in BOOLEAN : MgrSend(ok)
    \/ MgrWake
    \/ MgrPop
    \/ Write("mgr", TRUE)
    \/ Rename("mgr", TRUE)

ProdNext ==
    \/ \E c \in Commits : ProdCall(c)
    \/ ProdLoad(TRUE)
    \/ ProdPush
    \/ Write("prod", TRUE)
    \/ Rename("prod", TRUE)

Next == MgrNext \/ ProdNext

Spec == Init /\ [][Next]_vars

\* SpecFIFO: the manager alone on a queue file, with a gate that is always up
\* and accepts every commit; the worker thread keeps being scheduled.
NextFIFO ==
    \/ MgrStart
    \/ MgrLoad(TRUE)
    \/ MgrIter
    \/ MgrLoopEnd
    \/ MgrPeek
    \/ MgrCheck(TRUE)
    \/ MgrSend(TRUE)
    \/ MgrPop
    \/ Write("mgr", TRUE)
    \/ Rename("mgr", TRUE)

SpecFIFO == Init /\ [][NextFIFO]_vars /\ WF_vars(NextFIFO)

\* SpecRetry: the manager alone, with a gate that is up but may reject a
\* commit any number of times before it accepts it.
NextRetry ==
    \/ MgrStart
    \/ MgrLoad(TRUE)
    \/ MgrIter
    \/ MgrLoopEnd
    \/ MgrPeek
    \/ MgrCheck(TRUE)
    \/ \E ok \in BOOLEAN : MgrSend(ok)
    \/ MgrWake
    \/ MgrPop
    \/ Write("mgr", TRUE)
    \/ Rename("mgr", TRUE)

SpecRetry == Init /\ [][NextRetry]_vars

\* SpecLive: the manager and a producer side by side, nothing fails, the
\* gate is always up and accepting, and both threads keep being scheduled.
MgrLive ==
    \/ MgrStart
    \/ MgrLoad(TRUE)
    \/ MgrIter
    \/ MgrLoopEnd
    \/ MgrPeek
    \/ MgrCheck(TRUE)
    \/ MgrSend(TRUE)
    \/ MgrPop
    \/ Write("mgr", TRUE)
    \/ Rename("mgr", TRUE)

NextLive == MgrLive \/ ProdNext

SpecLive == Init /\ [][NextLive]_vars /\ WF_vars(MgrLive) /\ WF_vars(ProdNext)

\* SpecEnq: producers only; any filesystem operation may fail, and the
\* process may be restarted between two calls.
NextEnq ==
    \/ \E c \in Commits : ProdCall(c)
    \/ \E ok \in BOOLEAN : ProdLoad(ok)
    \/ ProdPush
    \/ \E ok \in BOOLEAN : Write("prod", ok)
    \/ \E ok \in BOOLEAN : Rename("prod", ok)
    \/ Restart

SpecEnq == Init /\ [][NextEnq]_vars

\* SpecCrash: the manager drains the file while the process may be killed at
\* any point, also in the middle of a write, and started again.
NextCrash ==
    \/ MgrStart
    \/ MgrLoad(TRUE)
    \/ MgrIter
    \/ MgrLoopEnd
    \/ MgrPeek
    \/ MgrCheck(TRUE)
    \/ MgrSend(TRUE)
    \/ MgrPop
    \/ Write("mgr", TRUE)
    \/ Rename("mgr", TRUE)
    \/ Kill
    \/ KillInWrite

SpecCrash == Init /\ [][NextCrash]_vars

\* SpecSave: producers call while no manager runs, then the manager drains
\* the file; any filesystem operation may fail.
NextSave ==
    \/ \E c \in Commits : ProdCallOffline(c)
    \/ \E ok \in BOOLEAN : ProdLoad(ok)
    \/ ProdPush
    \/ MgrStartQuiet
    \/ \E ok \in BOOLEAN : MgrLoad(ok)
    \/ MgrIter
    \/ MgrLoopEnd
    \/ MgrPeek
    \/ MgrCheck(TRUE)
    \/ MgrSend(TRUE)
    \/ MgrPop
    \/ \E t \in {"mgr", "prod"}, ok \in BOOLEAN : Write(t, ok)
    \/ \E t \in {"mgr", "prod"}, ok \in BOOLEAN : Rename(t, ok)

SpecSave == Init /\ [][NextSave]_vars

\* SpecQueue: one caller of Queue's methods on a path that may hold a valid
\* queue, a file that does not parse, or nothing, with or without a sibling
\* left behind by an earlier run; any filesystem operation may fail.
LeftoverTmps == {Absent, FileOf(<<LBrace, Key("items")>>)}

InitQueue == InitWith(ValidFiles \cup CorruptFiles, LeftoverTmps)

NextQueue ==
    \/ \E ok \in BOOLEAN : UserLoad(ok)
    \/ \E c \in Commits : UserEnqueue(c)
    \/ UserPop
    \/ \E ok \in BOOLEAN : Write("user", ok)
    \/ \E ok \in BOOLEAN : Rename("user", ok)

SpecQueue == InitQueue /\ [][NextQueue]_vars

\* SpecLen: a caller enqueues onto an empty or missing queue while no manager
\* runs and asks for the length at any time between its calls; then the
\* manager drains the file into a gate that is up and accepts; reading the
\* file for the length may fail.
InitLen == InitWith({Absent, FileOf(Serialize(<<>>))}, {Absent})

NextLen ==
    \/ \E c \in Commits : ProdCallOffline(c)
    \/ ProdLoad(TRUE)
    \/ ProdPush
    \/ Write("prod", TRUE)
    \/ Rename("prod", TRUE)
    \/ \E slot \in BOOLEAN : LenCall(NullPtr, slot)
    \/ \E ok \in BOOLEAN : QueueLen(ok)
    \/ MgrStartQuiet
    \/ MgrLoad(TRUE)
    \/ MgrIter
    \/ MgrLoopEnd
    \/ MgrPeek
    \/ MgrCheck(TRUE)
    \/ MgrSend(TRUE)
    \/ MgrPop
    \/ Write("mgr", TRUE)
    \/ Rename("mgr", TRUE)

SpecLen == InitLen /\ [][NextLen]_vars

\* SpecFfi: a caller of the C interface on an empty or missing queue: it
\* calls sparkwms_queue_enqueue and sparkwms_queue_len with pointers that
\* may be null or not UTF-8 and with or without err_out, and functions
\* framed by with_handle whose closure may return any AppError; any
\* filesystem operation may fail.
PathPtrs == {NullPtr, BadPtr, StrPtr("queue.json")}
DevicePtrs == {NullPtr, BadPtr, StrPtr(""), StrPtr("dev-1")}
LocationPtrs == {NullPtr, BadPtr, StrPtr("A1")}
FfiCommits == {FfiCommit(d, l, 5, 42) : d \in DevicePtrs, l \in LocationPtrs}

Messages == {"boom"} \cup NulStrings
AppErrors ==
    {Validation(m) : m \in Messages} \cup {Network(m) : m \in Messages}
      \cup {Server(500, m) : m \in Messages} \cup {Unauthorized}
      \cup {Serialization(m) : m \in Messages} \cup {Internal(m) : m \in Messages}
Results == {Ok(TRUE), Ok(FALSE)} \cup {Err(e) : e \in AppErrors}

NextFfi ==
    \/ \E path \in PathPtrs, commit \in FfiCommits, slot \in BOOLEAN :
          FfiEnqueue(path, commit, slot)
    \/ \E ok \in BOOLEAN : ProdLoad(ok)
    \/ ProdPush
    \/ \E ok \in BOOLEAN : Write("prod", ok)
    \/ \E ok \in BOOLEAN : Rename("prod", ok)
    \/ \E path \in PathPtrs, slot \in BOOLEAN : LenCall(path, slot)
    \/ \E ok \in BOOLEAN : QueueLen(ok)
    \/ \E slot \in BOOLEAN : WithHandle(TRUE, Ok(TRUE), slot)
    \/ \E result \in Results, slot \in BOOLEAN : WithHandle(FALSE, result, slot)

SpecFfi == InitLen /\ [][NextFfi]_vars

\* SpecGate: the manager alone on a queue file, with a gate that may be
\* down at any probe, any number of times, and may reject a commit; the
\* worker thread keeps being scheduled.
NextGate ==
    \/ MgrStart
    \/ MgrLoad(TRUE)
    \/ MgrIter
    \/ MgrLoopEnd
    \/ MgrPeek
    \/ \E up \in BOOLEAN : MgrCheck(up)
    \/ \E ok \in BOOLEAN : MgrSend(ok)
    \/ MgrWake
    \/ MgrPop
    \/ Write("mgr", TRUE)
    \/ Rename("mgr", TRUE)

SpecGate == Init /\ [][NextGate]_vars /\ WF_vars(NextGate)

\* SpecCorrupt: the queue file exists but does not parse; producers call
\* while no manager runs, and the manager is started before or after them,
\* with a gate that is up and accepts; nothing else fails.
InitCorrupt == InitWith(CorruptFiles, {Absent})

NextCorrupt ==
    \/ \E c \in Commits : ProdCallOffline(c)
    \/ ProdLoad(TRUE)
    \/ ProdPush
    \/ Write("prod", TRUE)
    \/ Rename("prod", TRUE)
    \/ MgrStartQuiet
    \/ MgrLoad(TRUE)
    \/ MgrIter
    \/ MgrLoopEnd
    \/ MgrPeek
    \/ MgrCheck(TRUE)
    \/ MgrSend(TRUE)
    \/ MgrPop
    \/ Write("mgr", TRUE)
    \/ Rename("mgr", TRUE)

SpecCorrupt == InitCorrupt /\ [][NextCorrupt]_vars

\* ------------------------------------------------------------------ claims
IsPrefix(a, b) == Len(a) <= Len(b) /\ a = SubSeq(b, 1, Len(a))
Suffix(q, n) == SubSeq(q, n + 1, Len(q))
Occ(q, c) == Cardinality({i \in DOMAIN q : q[i] = c})

\* the commits send_commit was called with, in call order
Sent == [i \in DOMAIN calls |-> calls[i].c]
\* the number of accepted calls among the first k
OkUpTo(k) == Cardinality({i \in 1..k : calls[i].ok})
NumAccepted == OkUpTo(Len(calls))
\* the commits send_commit accepted, in call order
Accepted == LET okCalls == SelectSeq(calls, LAMBDA r : r.ok)
            IN  [i \in DOMAIN okCalls |-> okCalls[i].c]

MgrLoaded == pc["mgr"] \notin {"off", "start", "exited"}
MgrInPop == pc["mgr"] \in {"pop", "write", "rename"}

\* C1: started on a file holding C1..Cn, with a gate that is always up and
\* always accepts, the manager calls send_commit with C1, ..., Cn in that
\* order, once each (the calls made so far are always a prefix of the file's
\* commits), and from some point on all of them have been sent and both the
\* manager's queue and the queue on disk are empty.
C1_Drained ==
    /\ MgrLoaded
    /\ Sent = q0
    /\ mem["mgr"] = <<>>
    /\ Disk(file) = <<>>

C1_FifoDelivery == [](IsPrefix(Sent, q0)) /\ <>[]C1_Drained

C1_Witness ==
    /\ C1_Drained
    /\ Len(q0) = 2
    /\ q0[1] # q0[2]

\* C2: with a gate that rejects the head commit Ci N times and then accepts
\* it, every send_commit call is for the first commit not yet accepted (so Ci
\* is called N + 1 times in a row and nothing behind it is sent before), and
\* a commit leaves the manager's queue and the file only after its accepted
\* call: the file holds the commits after the accepted ones, plus the head
\* while pop_front has not finished its save.
C2_HeadOnly ==
    \A k \in DOMAIN calls :
        /\ OkUpTo(k - 1) < Len(q0)
        /\ calls[k].c = q0[OkUpTo(k - 1) + 1]

C2_RemovedAfterAccept ==
    /\ NumAccepted <= Len(q0)
    /\ Len(calls) = NumAccepted + sendFails
    /\ MgrInPop => calls # <<>> /\ calls[Len(calls)].ok
    /\ MgrLoaded =>
         mem["mgr"] = Suffix(q0, IF pc["mgr"] = "pop" THEN NumAccepted - 1 ELSE NumAccepted)
    /\ Disk(file) = Suffix(q0, IF MgrInPop THEN NumAccepted - 1 ELSE NumAccepted)

C2_AtLeastOnce == C2_HeadOnly /\ C2_RemovedAfterAccept

C2_Witness ==
    /\ Len(calls) = 4
    /\ ~calls[1].ok /\ ~calls[2].ok /\ calls[3].ok /\ calls[4].ok
    /\ calls[3].c # calls[4].c
    /\ Disk(file) = <<>>

\* the k-th commit whose enqueue_commit returned Ok has been accepted by
\* send_commit: that value was accepted once for each time it was in the
\* file at the start or enqueued up to the k-th call
DeliveredUpTo(k) ==
    /\ Len(enqOk) >= k
    /\ Occ(Accepted, enqOk[k]) >= Occ(q0, enqOk[k]) + Occ(SubSeq(enqOk, 1, k), enqOk[k])

\* C3: every commit for which enqueue_commit returned Ok is eventually passed
\* to send_commit and accepted, also when it was enqueued while the manager
\* was already running (the manager keeps running, the gate is up and
\* accepts).
C3_EventualDelivery ==
    \A k \in 1..MaxEnq : (Len(enqOk) >= k) ~> DeliveredUpTo(k)

\* C4: whatever the interleaving of enqueue_commit calls with the running
\* manager, a commit is gone from the queue file only if send_commit accepted
\* that commit: each commit that was in the file at the start or was enqueued
\* with success is in the file or has been accepted.
C4_RemovedOnlyWhenDelivered ==
    \A c \in Commits :
        Occ(q0, c) + Occ(enqOk, c) <= Occ(Disk(file), c) + Occ(Accepted, c)

\* C5: after any sequence of enqueue_commit calls, some of them failing in
\* load or save and with restarts of the process between calls, Queue::load
\* returns what the file held at the start followed by exactly the commits
\* of the calls that returned Ok, in call order.
C5_Durability == Disk(file) = q0 \o enqOk

C5_Witness ==
    /\ pc["prod"] = "idle"
    /\ ncalls = 2
    /\ ioFails = 1
    /\ kills = 1
    /\ Len(q0) = 1
    /\ Len(enqOk) = 1
    /\ enqOk[1] # q0[1]

Complete(f) == f.exists => Parse(f.data).ok

\* C6: wherever save_as is interrupted, the target is never a partial
\* document, and it changes only in the rename step, to the complete
\* serialization of the queue being saved; a kill leaves it as it was.
C6_AtomicSave ==
    /\ [](Complete(file))
    /\ [][file' # file =>
            /\ kills' = kills
            /\ \E t \in Threads :
                 /\ pc[t] = "rename"
                 /\ pc'[t] # "rename"
                 /\ file' = FileOf(Serialize(mem[t]))]_vars

C6_Witness ==
    /\ kills = 1
    /\ tmp.exists
    /\ tmp.data # <<>>
    /\ ~Parse(tmp.data).ok
    /\ file.exists
    /\ Len(Disk(file)) = 2

\* C7: when the manager is killed at any point of its loop and started again
\* on the same file, no commit of the file is lost (it is in the file or was
\* accepted) and none is accepted by send_commit a second time.
C7_NoLossNoDuplicate ==
    \A c \in Commits :
        /\ Occ(q0, c) <= Occ(Disk(file), c) + Occ(Accepted, c)
        /\ Occ(Accepted, c) <= Occ(q0, c)

\* C8: when the write or the rename of save_as fails inside enqueue or
\* pop_front, the method returns the error, the target is left as it was (a
\* complete document), the Queue in memory is ahead of it by the appended
\* commit or by the popped head, and the caller does not go on:
\* enqueue_commit returns the error and commit_manager returns.
C8_SaveFailureSurfaces ==
    [][\A t \in Threads :
        (pc[t] \in {"write", "rename"} /\ ioFails' = ioFails + 1) =>
            /\ res'[t] = "err"
            /\ file' = file
            /\ Complete(file')
            /\ mem'[t] = mem[t]
            /\ op[t] = "enqueue" => mem'[t] = Append(Disk(file'), arg[t])
            /\ op[t] = "pop" => Disk(file') = <<arg[t]>> \o mem'[t]
            /\ t = "prod" => enqOk' = enqOk /\ pc'[t] = "idle"
            /\ t = "mgr" => pc'[t] = "exited" /\ calls' = calls]_vars

C8_Witness ==
    /\ pc["mgr"] = "exited"
    /\ op["mgr"] = "pop"
    /\ res["mgr"] = "err"
    /\ ioFails = 1
    /\ enqOk # <<>>
    /\ Len(Disk(file)) = Len(mem["mgr"]) + 1

\* C9: Queue::load returns Ok with an empty queue when there is no file and
\* when the file does not parse, Ok with the parsed queue otherwise, and an
\* error only when reading an existing file fails; it never changes the
\* file or its sibling.
C9_LoadStep == pc["user"] \in {"new", "ready"} /\ op'["user"] = "load"

C9_LoadDefaults ==
    [][C9_LoadStep =>
        /\ file' = file
        /\ tmp' = tmp
        /\ IF ~file.exists
           THEN res'["user"] = "ok" /\ mem'["user"] = <<>>
           ELSE IF ioFails' # ioFails
                THEN res'["user"] = "err" /\ mem'["user"] = mem["user"]
                ELSE /\ res'["user"] = "ok"
                     /\ mem'["user"] = IF Parse(file.data).ok
                                       THEN Parse(file.data).items ELSE <<>>]_vars

C9_Witness ==
    /\ op["user"] = "load"
    /\ res["user"] = "ok"
    /\ mem["user"] = <<>>
    /\ file.exists
    /\ Len(file.data) > 5
    /\ ~Parse(file.data).ok

\* C10: pop_front on an empty queue returns Ok(None) and touches neither the
\* target nor its sibling (present or absent); the queue stays empty, so the
\* call can be repeated with the same result.
C10_EmptyPopStep == pc["user"] = "ready" /\ mem["user"] = <<>> /\ op'["user"] = "pop"

C10_EmptyPopNoWrite ==
    [][C10_EmptyPopStep =>
        /\ res'["user"] = "ok_none"
        /\ file' = file
        /\ tmp' = tmp
        /\ ioFails' = ioFails
        /\ mem'["user"] = <<>>
        /\ pc'["user"] = "ready"]_vars

C10_Witness ==
    /\ op["user"] = "pop"
    /\ res["user"] = "ok_none"
    /\ pc["user"] = "ready"
    /\ ~file.exists
    /\ tmp.exists

\* the user's save_as has just returned Ok: enqueue or pop_front came back
\* with Ok after writing
UserSaved ==
    /\ pc["user"] = "ready"
    /\ op["user"] \in {"enqueue", "pop"}
    /\ res["user"] = "ok"

\* C11: a save_as that returned Ok followed by Queue::load of the same path
\* returns Ok with the queue that was saved: the same commits with the same
\* field values in the same order, for the empty queue and for a queue of
\* one commit as for longer ones.
C11_RoundTrip ==
    [][(UserSaved /\ C9_LoadStep /\ ioFails' = ioFails) =>
          /\ res'["user"] = "ok"
          /\ mem'["user"] = mem["user"]
          /\ Load(file, FALSE) = [ok |-> TRUE, items |-> mem["user"]]]_vars

C11_Witness ==
    /\ op["user"] = "load"
    /\ res["user"] = "ok"
    /\ q0 = <<>>
    /\ ncalls = 2
    /\ mem["user"] = <<CommitA, CommitB>>

\* the manager has popped everything it loaded and is in no pop_front
MgrDrained == MgrLoaded /\ ~MgrInPop /\ mem["mgr"] = <<>>

C12_LenStep == pc["prod"] = "queue_len" /\ pc'["prod"] = "idle"

\* C12: queue_len reports the number of commits in the queue file and leaves
\* the file and its sibling as they were: k after k enqueue_commit calls
\* returned Ok on an empty or missing queue, and 0 once the manager has sent
\* all of them to an accepting gate and popped them, the gate having
\* recorded them in enqueue order.
C12_QueueLen ==
    [][C12_LenStep =>
          /\ file' = file
          /\ tmp' = tmp
          /\ ffi'.ret = IF ioFails' = ioFails THEN <<Len(Disk(file))>> ELSE <<-1>>
          /\ (ioFails' = ioFails /\ pc["mgr"] = "off") => ffi'.ret = <<Len(enqOk)>>
          /\ (ioFails' = ioFails /\ MgrDrained) =>
                ffi'.ret = <<0>> /\ Accepted = enqOk]_vars

C12_Witness ==
    /\ op["prod"] = "queue_len"
    /\ ffi.fn = "queue_len"
    /\ ffi.ret = <<0>>
    /\ pc["prod"] = "idle"
    /\ MgrDrained
    /\ enqOk = <<CommitA, CommitB>>
    /\ Accepted = enqOk

\* C13: a commit whose device_id is the empty string is rejected by
\* sparkwms_queue_enqueue, so every commit in the queue file has a
\* device_id that is not empty.
C13_DeviceIdNonEmpty ==
    \A i \in DOMAIN Disk(file) : Disk(file)[i].device_id # ""

BadStringPtr(ptr) == ptr.kind \in {"null", "bad"}

C14_CallStep ==
    /\ pc["prod"] = "idle"
    /\ ncalls' = ncalls + 1
    /\ ffi'.fn = "queue_enqueue"

\* C14: sparkwms_queue_enqueue called with a device_id or location pointer
\* that is null or not UTF-8 returns false at once, writes a Validation
\* error (code 1, with a message) to err_out, and leaves the queue file and
\* its sibling as they were: no load, no write, nothing is appended, and the
\* call does nothing further.
C14_ValidationFirst ==
    [][(/\ C14_CallStep
        /\ \/ BadStringPtr(ffi'.commit.device_id)
           \/ BadStringPtr(ffi'.commit.location)) =>
          /\ ~ffi'.live
          /\ ffi'.flag = <<FALSE>>
          /\ ffi'.slot =>
                /\ Len(ffi'.out) = 1
                /\ ffi'.out[1].code = 1
                /\ ffi'.out[1].message.kind = "str"
          /\ pc'["prod"] = "idle"
          /\ res'["prod"] = "err"
          /\ file' = file
          /\ tmp' = tmp
          /\ ioFails' = ioFails
          /\ enqOk' = enqOk]_vars

C14_Witness ==
    /\ ffi.fn = "queue_enqueue"
    /\ ~ffi.live
    /\ ffi.path = NullPtr
    /\ ffi.commit.device_id = StrPtr("dev-1")
    /\ ffi.commit.location = BadPtr
    /\ ffi.out = <<[code |-> 1, message |-> StrPtr("location was not valid UTF-8")]>>
    /\ ncalls = 2
    /\ Len(Disk(file)) = 1

\* the code the claim gives for each category of error
C15_Code ==
    [Validation |-> 1, Network |-> 2, Server |-> 3, Unauthorized |-> 4,
     Serialization |-> 5, Internal |-> 999]

C15_Returned == ffi.fn # "none" /\ ~ffi.live

\* C15: a call of the C interface that fails writes to err_out a code from
\* {1, 2, 3, 4, 5, 999} with a message that is not null, a call that
\* succeeds writes code 0 with a null message, and From<AppError> gives each
\* category its own code: 1 validation, 2 network, 3 server, 4
\* unauthorized, 5 serialization, 999 internal.
C15_ErrorCodes ==
    /\ \A e \in AppErrors :
          /\ FfiErrorFrom(e).code = C15_Code[e.tag]
          /\ FfiErrorFrom(e).message.kind = "str"
    /\ \A e1, e2 \in AppErrors :
          e1.tag # e2.tag => FfiErrorFrom(e1).code # FfiErrorFrom(e2).code
    /\ (C15_Returned /\ ffi.slot) =>
          /\ Len(ffi.out) = 1
          /\ IF res["prod"] = "err"
             THEN /\ ffi.out[1].code \in {1, 2, 3, 4, 5, 999}
                  /\ ffi.out[1].message.kind = "str"
                  /\ ffi.flag # <<TRUE>>
                  /\ ffi.ret \in {<<>>, <<-1>>}
             ELSE ffi.out[1] = [code |-> 0, message |-> NullPtr]

C15_Witness ==
    /\ ffi.fn = "with_handle"
    /\ res["prod"] = "err"
    /\ ffi.out = <<[code |-> 3, message |-> StrPtr("500 boom")]>>

\* the manager is back at the head of the loop after an iteration that did
\* not get to the probe
C16_BackFromEmpty ==
    /\ pc["mgr"] \in {"loop_end", "peek", "sleep1"}
    /\ mem["mgr"] = <<>>
    /\ pc'["mgr"] = "loop"

C16_LastCallFailed == calls' # <<>> /\ ~calls'[Len(calls')].ok

\* C16: the manager sleeps in three situations only: 1 s when it finds the
\* queue empty, 5 s after check() returned false, 5 s after send_commit
\* failed; and every iteration that finds the queue empty goes through the
\* idle sleep before the queue is looked at again.
C16_ThreeSleeps ==
    /\ [][(pc'["mgr"] = "sleep1" /\ pc["mgr"] # "sleep1") => mem["mgr"] = <<>>]_vars
    /\ [][(pc'["mgr"] = "sleep5" /\ pc["mgr"] # "sleep5") =>
             \/ pc["mgr"] = "check" /\ res'["mgr"] = "down"
             \/ pc["mgr"] = "send" /\ C16_LastCallFailed]_vars
    /\ [][C16_BackFromEmpty => pc["mgr"] = "sleep1"]_vars

\* check() has just returned false: the step from the probe to the backoff
C17_ProbeDown == pc["mgr"] = "check" /\ pc'["mgr"] # "check" /\ res'["mgr"] = "down"

\* C17: send_commit is called only in an iteration whose check() has just
\* returned true; when check() returned false no send_commit is made in
\* that iteration, the head commit stays at the head of the manager's queue
\* and of the queue file, and after the backoff the manager probes again.
C17_ProbeGating ==
    /\ [][calls' # calls => pc["mgr"] = "send" /\ res["mgr"] = "up"]_vars
    /\ [][(pc'["mgr"] = "send" /\ pc["mgr"] # "send") =>
             pc["mgr"] = "check" /\ res'["mgr"] = "up"]_vars
    /\ [][C17_ProbeDown =>
             /\ pc'["mgr"] = "sleep5"
             /\ calls' = calls
             /\ mem' = mem
             /\ file' = file
             /\ Peek(mem'["mgr"]) = [some |-> TRUE, item |-> arg["mgr"]]
             /\ Peek(Disk(file')) = [some |-> TRUE, item |-> arg["mgr"]]]_vars
    /\ [][(res["mgr"] = "down" /\ pc["mgr"] # "check") =>
             /\ calls' = calls
             /\ mem' = mem
             /\ file' = file]_vars
    /\ (pc["mgr"] = "sleep5" /\ res["mgr"] = "down") ~> (pc["mgr"] = "check")

C17_Witness ==
    /\ pc["mgr"] = "sleep5"
    /\ res["mgr"] = "down"
    /\ Len(calls) = 1
    /\ calls[1].ok
    /\ Len(q0) = 2
    /\ Disk(file) = <<q0[2]>>
    /\ arg["mgr"] = q0[2]

C18_Failed == pc["mgr"] = "sleep5"

\* C18: however often check() returns false and send_commit fails,
\* commit_manager does not return and hands no error to a caller; after a
\* failure it sleeps the same 5 s whatever the number of failures so far,
\* and then probes and sends for the same head commit again, with no limit
\* on the number of retries.
C18_RetriesForever ==
    /\ [](pc["mgr"] # "exited" /\ res["mgr"] # "err")
    /\ [][(pc["mgr"] \in {"check", "send"} /\ pc'["mgr"] \notin {"check", "send", "pop"}) =>
             /\ pc'["mgr"] = "sleep5"
             /\ SleepSecs[pc'["mgr"]] = 5
             /\ mem' = mem
             /\ file' = file]_vars
    /\ [][(pc["mgr"] \in {"sleep5", "loop", "peek"}) => mem' = mem /\ file' = file]_vars
    /\ C18_Failed ~> (pc["mgr"] = "check" /\ arg["mgr"] = Head(mem["mgr"]))
    /\ \A n \in 1..MaxSendFail :
          (C18_Failed /\ sendFails = n) ~> (pc["mgr"] = "send" \/ res["mgr"] = "down")

C18_Witness ==
    /\ pc["mgr"] = "send"
    /\ sendFails = MaxSendFail
    /\ Len(calls) = MaxSendFail
    /\ \A i \in DOMAIN calls : ~calls[i].ok /\ calls[i].c = q0[1]
    /\ arg["mgr"] = q0[1]
    /\ Disk(file) = q0

\* C19: once started commit_manager never returns by itself, whatever the
\* outcome of load, probe, send_commit or pop_front, a failing save in
\* pop_front included.
C19_NoTerminalState == pc["mgr"] # "exited"

\* C20: whenever a save_as returns Ok, the target file holds exactly the
\* serialization of the queue that caller saved, also when enqueue_commit
\* and the manager's pop_front run their write and rename steps interleaved.
C20_SavedIsOnDisk ==
    [][\A t \in Threads :
          (pc[t] = "rename" /\ pc'[t] # "rename" /\ res'[t] = "ok") =>
              file' = FileOf(Serialize(mem[t]))]_vars

\* the queue file is one of the files that do not parse
Corrupt == file \in CorruptFiles

\* C21: enqueue_commit on a path whose file exists but does not parse loads
\* an empty queue, returns Ok and replaces the file by a queue holding
\* exactly the new commit, so what the file held is gone with the first
\* enqueue that succeeds; a manager started on such a file has an empty
\* queue, sends nothing and never writes.
C21_CorruptDiscarded ==
    /\ [](Corrupt => ~Parse(file.data).ok)
    /\ [][(Corrupt /\ pc["prod"] = "load" /\ pc'["prod"] # "load") =>
             /\ pc'["prod"] = "push"
             /\ mem'["prod"] = <<>>]_vars
    /\ [][(Corrupt /\ file' # file) =>
             /\ pc["prod"] = "rename"
             /\ res'["prod"] = "ok"
             /\ enqOk' = Append(enqOk, arg["prod"])
             /\ file' = FileOf(Serialize(<<arg["prod"]>>))
             /\ Disk(file') = <<arg["prod"]>>]_vars
    /\ [][(Corrupt /\ pc["prod"] # "idle" /\ pc'["prod"] = "idle") =>
             res'["prod"] = "ok" /\ ~Corrupt']_vars
    /\ []((Corrupt /\ MgrLoaded) =>
             /\ mem["mgr"] = <<>>
             /\ calls = <<>>
             /\ pc["mgr"] \in {"loop", "loop_end"})
    /\ [][(Corrupt /\ pc["mgr"] # "off") => file' = file /\ tmp' = tmp]_vars

C21_Witness ==
    /\ q0 = <<>>
    /\ ncalls = 1
    /\ pc["prod"] = "idle"
    /\ res["prod"] = "ok"
    /\ enqOk = <<CommitB>>
    /\ file = FileOf(Serialize(<<CommitB>>))
    /\ pc["mgr"] = "off"

====
